---- MODULE Spec2Model ----
(***************************************************************************)
(* Model of the Logger facade of @springrole/logger.                       *)
(*                                                                         *)
(* Two versions of the class are in the repository: the early one          *)
(* (src/lib/logger.js: loggly + cloudwatch, no webhook, fixed tracing      *)
(* rate) and the later one (src/unnamed/part_001: cloudwatch only,         *)
(* webhook alerts, tracesSampler).  `variant` says which one the process   *)
(* has loaded.  One process holds the Logger instances of Loggers and the  *)
(* process-wide @sentry/node SDK.                                          *)
(*                                                                         *)
(* JavaScript values: strings are TLA+ strings, null and undefined are the *)
(* markers Null and Undefined, an optional object is a sequence of length  *)
(* 0 (null) or 1, a URL that is matched by substring is a sequence of      *)
(* one-character strings, a sampling rate is an integer number of          *)
(* hundredths (25 is 0.25).                                                *)
(***************************************************************************)
EXTENDS Integers, Sequences, FiniteSets, TLC

VARIABLES
    variant,        \* "early" (src/lib/logger.js) or "later" (part_001)
    env,            \* process.env.NODE_ENV
    level,          \* this.level, per instance
    logger,         \* this.logger, per instance: <<>> is null, else <<[transports |-> ...]>>
    webhookUrl,     \* this.webhookUrl, per instance
    webhookColor,   \* this.webhookColor, per instance
    tag,            \* this.tag, per instance
    sentry,         \* this.#sentry is bound, per instance
    sdk,            \* options the process-wide SDK was last init()ed with: <<>> or <<options>>
    sdkInits,       \* number of sentry.init calls made in the process
    initCalls,      \* per instance: initializeTransports calls completed, up to MaxInits
    pending,        \* HTTP POSTs issued by postWebhookAlert and not yet settled (their URLs)
    lastOp,         \* the call (or callback) that made the last step: [name, inst, args]
    out             \* what the last step did outside the instance: see NoOut

vars == <<variant, env, level, logger, webhookUrl, webhookColor, tag, sentry, sdk,
          sdkInits, initCalls, pending, lastOp, out>>

instanceVars == <<level, logger, webhookUrl, webhookColor, tag, sentry>>

-----------------------------------------------------------------------------
(* JavaScript values *)

Null == "<null>"
Undefined == "<undefined>"

\* !v for the string-or-nullish values the facade tests
Truthy(v) == v \notin {Null, Undefined, ""}

\* a default parameter value applies to an omitted (undefined) argument only
Default(v, d) == IF v = Undefined THEN d ELSE v

\* a ?? b
Coalesce(a, b) == IF a \in {Null, Undefined} THEN b ELSE a

\* `${v}` in a template literal
Str(v) == IF v = Undefined THEN "undefined" ELSE IF v = Null THEN "null" ELSE v

Loggers == {"a", "b"}

UNINITIALIZED_ERROR == "Logger is not initialized"
CONFIG_ERROR == "defaultLevel and tag are required"
\* exceptions of the collaborators (error tracker, sinks), which the facade does not catch
CAPTURE_FAILURE == "captureException threw"
WRITE_FAILURE == "sink write threw"
NoError == "none"

DEFAULT_WEBHOOK_COLOR == "#b52626"
DEFAULT_AWS_REGION == "us-east-1"

-----------------------------------------------------------------------------
(* Sinks *)

Console(lvl) == [kind |-> "Console", level |-> lvl]

Cloudwatch(groupTag, region, lvl) ==
    [kind |-> "Cloudwatch", logGroupName |-> groupTag \o "-" \o Str(env),
     awsRegion |-> region, level |-> lvl]

Loggly(token, t, lvl) ==
    [kind |-> "Loggly", token |-> token,
     subdomain |-> IF env = "production" THEN t ELSE Str(env) \o "-" \o t,
     level |-> lvl]

createLogger(transports) == <<[transports |-> transports]>>

NoLogger == <<>>

\* the later selection with the early version's test of the environment
SelectTransports_LocalhostOnly(defaultLevel, t, forceConsole, awsRegion) ==
    IF env = "localhost" \/ forceConsole
    THEN <<Console(defaultLevel)>>
    ELSE <<Cloudwatch(t, awsRegion, defaultLevel)>>

\* the transports array the later initializeTransports builds
SelectTransports(defaultLevel, t, forceConsole, awsRegion) ==
    IF env \in {"test", "localhost"} \/ forceConsole
    THEN <<Console(defaultLevel)>>
    ELSE <<Cloudwatch(t, awsRegion, defaultLevel)>>

\* the transports array the early initializeTransports builds
SelectTransportsEarly(logglyToken, defaultLevel, t) ==
    IF env = "localhost"
    THEN <<Console(defaultLevel)>>
    ELSE (IF Truthy(logglyToken) THEN <<Loggly(logglyToken, t, defaultLevel)>> ELSE <<>>)
         \o <<Cloudwatch(t, DEFAULT_AWS_REGION, defaultLevel)>>

-----------------------------------------------------------------------------
(* The instance `this` of a method call, and what a call does outside it *)

This(i) ==
    [level |-> level[i], logger |-> logger[i], webhookUrl |-> webhookUrl[i],
     webhookColor |-> webhookColor[i], tag |-> tag[i], sentry |-> sentry[i]]

Store(i, self) ==
    /\ level' = [level EXCEPT ![i] = self.level]
    /\ logger' = [logger EXCEPT ![i] = self.logger]
    /\ webhookUrl' = [webhookUrl EXCEPT ![i] = self.webhookUrl]
    /\ webhookColor' = [webhookColor EXCEPT ![i] = self.webhookColor]
    /\ tag' = [tag EXCEPT ![i] = self.tag]
    /\ sentry' = [sentry EXCEPT ![i] = self.sentry]

\* a sampling context without a request: context?.request is undefined
NoRequest == [url |-> <<>>, method |-> Undefined]

\* a step that throws nothing, writes nothing, captures nothing, posts nothing
NoOut ==
    [thrown |-> NoError,    \* the error raised synchronously to the caller
     returned |-> Undefined,\* the string a getter returned
     writes |-> <<>>,       \* records handed to sinks: <<[sink, level]>>, in transport order
     captured |-> FALSE,    \* captureException ran to completion
     dispatched |-> FALSE,  \* postWebhookAlert was invoked
     posted |-> <<>>,       \* URLs of the HTTP POSTs issued
     promise |-> "none",    \* the postWebhookAlert promise: none, pending, resolved, rejected
     handlers |-> <<>>,     \* SDK options behind the handlers getSentryHandlers returned
     sdkCalls |-> <<>>,     \* options of the sentry.init calls made
     context |-> NoRequest, \* the sampling context the tracing decision was asked about
     sampled |-> -1]        \* rate the tracing decision returned, in hundredths

Initialized(self) == self.logger # NoLogger

-----------------------------------------------------------------------------
(* initializeTransports *)

\* the test written with && in place of ||
ArgsMissing_Both(defaultLevel, t) == ~Truthy(defaultLevel) /\ ~Truthy(t)

ArgsMissing(defaultLevel, t) == ~Truthy(defaultLevel) \/ ~Truthy(t)

\* initializeTransports pushing onto the transports of the logger it already has
initializeTransports_Appends(self, defaultLevel, t, forceConsole, url, color, region) ==
    IF ArgsMissing(defaultLevel, t)
    THEN [self |-> self, thrown |-> CONFIG_ERROR]
    ELSE [self |-> [self EXCEPT
                      !.level = defaultLevel,
                      !.webhookUrl = Default(url, Null),
                      !.webhookColor = Default(color, DEFAULT_WEBHOOK_COLOR),
                      !.tag = t,
                      !.logger = createLogger(
                          (IF Initialized(self) THEN self.logger[1].transports ELSE <<>>)
                          \o SelectTransports(defaultLevel, t, forceConsole,
                                              Default(region, DEFAULT_AWS_REGION)))],
          thrown |-> NoError]

initializeTransports(self, defaultLevel, t, forceConsole, url, color, region) ==
    IF ArgsMissing(defaultLevel, t)
    THEN [self |-> self, thrown |-> CONFIG_ERROR]
    ELSE [self |-> [self EXCEPT
                      !.level = defaultLevel,
                      !.webhookUrl = Default(url, Null),
                      !.webhookColor = Default(color, DEFAULT_WEBHOOK_COLOR),
                      !.tag = t,
                      !.logger = createLogger(
                          SelectTransports(defaultLevel, t, forceConsole,
                                           Default(region, DEFAULT_AWS_REGION)))],
          thrown |-> NoError]

initializeTransportsEarly(self, logglyToken, defaultLevel, t) ==
    LET lvl == Default(defaultLevel, "debug")
        tg == Default(t, "trivia")
    IN  [self |-> [self EXCEPT
                     !.level = lvl,
                     !.logger = createLogger(SelectTransportsEarly(logglyToken, lvl, tg))],
         thrown |-> NoError]

-----------------------------------------------------------------------------
(* getLevel, setLevel, debug, info, warn *)

getLevel(self) == self.level

\* setLevel leaving the transports of the logger as they were
SetTransportLevels_Skipped(transports, lvl) == transports

SetTransportLevels(transports, lvl) ==
    [k \in DOMAIN transports |-> [transports[k] EXCEPT !.level = lvl]]

\* setLevel assigning the level before it tests for the logger
setLevel_AssignsFirst(self, lvl) ==
    IF ~Initialized(self)
    THEN [self |-> [self EXCEPT !.level = lvl], thrown |-> UNINITIALIZED_ERROR]
    ELSE [self |-> [self EXCEPT
                      !.level = lvl,
                      !.logger = createLogger(
                          SetTransportLevels(self.logger[1].transports, lvl))],
          thrown |-> NoError]

setLevel(self, lvl) ==
    IF ~Initialized(self)
    THEN [self |-> self, thrown |-> UNINITIALIZED_ERROR]
    ELSE [self |-> [self EXCEPT
                      !.level = lvl,
                      !.logger = createLogger(
                          SetTransportLevels(self.logger[1].transports, lvl))],
          thrown |-> NoError]

\* this.logger.<lvl>(...): the record is handed to every transport of the logger;
\* a sink (or the formatter in front of it) may throw, which nothing here catches
LoggerWrite(self, lvl, writeThrows) ==
    IF writeThrows
    THEN [writes |-> <<>>, thrown |-> WRITE_FAILURE]
    ELSE [writes |-> [k \in DOMAIN self.logger[1].transports |->
                         [sink |-> self.logger[1].transports[k], level |-> lvl]],
          thrown |-> NoError]

\* debug, info and warn have the same body up to the level
log(self, lvl, writeThrows) ==
    IF ~Initialized(self)
    THEN [NoOut EXCEPT !.thrown = UNINITIALIZED_ERROR]
    ELSE LET w == LoggerWrite(self, lvl, writeThrows)
         IN  [NoOut EXCEPT !.writes = w.writes, !.thrown = w.thrown]

-----------------------------------------------------------------------------
(* initializeSentry, the tracing decision, getSentryHandlers *)

DEFAULT_TRACES_SAMPLE_RATE == 25
DEFAULT_TRACES_SAMPLE_RATE_EARLY == 50
DEFAULT_CUSTOM_URLS_SAMPLE_RATE == 10

\* an optional number: <<>> when the argument is omitted
DefaultNum(o, d) == IF o = <<>> THEN d ELSE o[1]

HEALTH == <<"/", "h", "e", "a", "l", "t", "h">>

\* String.prototype.includes
Includes(s, p) == \E k \in 0..(Len(s) - Len(p)) : SubSeq(s, k + 1, k + Len(p)) = p

\* url?.includes(endpoint), url being <<>> (undefined) or <<string>>
UrlIncludes(url, endpoint) == url # <<>> /\ Includes(url[1], endpoint)

\* the sampler testing the custom patterns before the ignore patterns
tracesSampler_CustomFirst(tracesSampleRate, ignoreURLs, customURLs, customURLsSampleRate, context) ==
    LET skipURLs == <<HEALTH>> \o ignoreURLs
        url == context.url
        isOptionsCall == context.method = "OPTIONS"
    IN  IF \E k \in DOMAIN customURLs : UrlIncludes(url, customURLs[k])
        THEN customURLsSampleRate
        ELSE IF (\E k \in DOMAIN skipURLs : UrlIncludes(url, skipURLs[k])) \/ isOptionsCall
             THEN 0
             ELSE tracesSampleRate

\* the closure installed as tracesSampler; context is [url, method] of context.request
tracesSampler(tracesSampleRate, ignoreURLs, customURLs, customURLsSampleRate, context) ==
    LET skipURLs == <<HEALTH>> \o ignoreURLs
        url == context.url
        isOptionsCall == context.method = "OPTIONS"
    IN  IF (\E k \in DOMAIN skipURLs : UrlIncludes(url, skipURLs[k])) \/ isOptionsCall
        THEN 0
        ELSE IF \E k \in DOMAIN customURLs : UrlIncludes(url, customURLs[k])
             THEN customURLsSampleRate
             ELSE tracesSampleRate

\* initializeSentry without the test of this.#sentry
initializeSentry_Unguarded(self, dsn, ignoreErrors, tracesSampleRate, options) ==
    [self |-> [self EXCEPT !.sentry = TRUE],
     init |-> <<[dsn |-> dsn, environment |-> env, ignoreErrors |-> ignoreErrors,
                 tracesSampler |->
                     [tracesSampleRate |->
                          DefaultNum(tracesSampleRate, DEFAULT_TRACES_SAMPLE_RATE),
                      ignoreURLs |-> options.ignoreURLs,
                      customURLs |-> options.customURLs,
                      customURLsSampleRate |->
                          DefaultNum(options.customURLsSampleRate,
                                     DEFAULT_CUSTOM_URLS_SAMPLE_RATE)]]>>]

\* options = [ignoreURLs, customURLs, customURLsSampleRate]
initializeSentry(self, dsn, ignoreErrors, tracesSampleRate, options) ==
    IF ~self.sentry
    THEN [self |-> [self EXCEPT !.sentry = TRUE],
          init |-> <<[dsn |-> dsn, environment |-> env, ignoreErrors |-> ignoreErrors,
                      tracesSampler |->
                          [tracesSampleRate |->
                               DefaultNum(tracesSampleRate, DEFAULT_TRACES_SAMPLE_RATE),
                           ignoreURLs |-> options.ignoreURLs,
                           customURLs |-> options.customURLs,
                           customURLsSampleRate |->
                               DefaultNum(options.customURLsSampleRate,
                                          DEFAULT_CUSTOM_URLS_SAMPLE_RATE)]]>>]
    ELSE [self |-> self, init |-> <<>>]

initializeSentryEarly(self, dsn, ignoreErrors, tracesSampleRate) ==
    IF ~self.sentry
    THEN [self |-> [self EXCEPT !.sentry = TRUE],
          init |-> <<[dsn |-> dsn, environment |-> env, ignoreErrors |-> ignoreErrors,
                      tracesSampleRate |->
                          DefaultNum(tracesSampleRate, DEFAULT_TRACES_SAMPLE_RATE_EARLY)]>>]
    ELSE [self |-> self, init |-> <<>>]

\* the SDK asking for the sampling rate of a request, under the options it holds
SdkSampleRate(opts, context) ==
    IF "tracesSampler" \in DOMAIN opts
    THEN tracesSampler(opts.tracesSampler.tracesSampleRate, opts.tracesSampler.ignoreURLs,
                       opts.tracesSampler.customURLs,
                       opts.tracesSampler.customURLsSampleRate, context)
    ELSE opts.tracesSampleRate

getSentryHandlers(self) ==
    IF ~self.sentry
    THEN [NoOut EXCEPT !.thrown = UNINITIALIZED_ERROR]
    ELSE [NoOut EXCEPT !.handlers = sdk]

-----------------------------------------------------------------------------
(* postWebhookAlert and error *)

\* postWebhookAlert resolving the URL with the instance default first
postWebhookAlert_InstanceFirst(self, buildThrows, override) ==
    LET url == Default(override, Null)
    IN  IF ~Truthy(self.webhookUrl) /\ ~Truthy(url)
        THEN [posted |-> <<>>, promise |-> "resolved"]
        ELSE IF buildThrows
             THEN [posted |-> <<>>, promise |-> "resolved"]
             ELSE [posted |-> <<Coalesce(self.webhookUrl, url)>>, promise |-> "pending"]

\* the part of postWebhookAlert that runs before its await: buildThrows says that
\* building the message throws (err.toString(), JSON.stringify(payload), ...)
postWebhookAlert(self, buildThrows, override) ==
    LET url == Default(override, Null)
    IN  IF ~Truthy(self.webhookUrl) /\ ~Truthy(url)
        THEN [posted |-> <<>>, promise |-> "resolved"]
        ELSE IF buildThrows
             THEN [posted |-> <<>>, promise |-> "resolved"]
             ELSE [posted |-> <<Coalesce(url, self.webhookUrl)>>, promise |-> "pending"]

\* postWebhookAlert with the await outside the try block
postWebhookAlertSettled_Uncaught(url, ok) ==
    [posted |-> <<>>, promise |-> IF ok THEN "resolved" ELSE "rejected"]

\* the part after the await: ok says whether axios.post fulfilled
postWebhookAlertSettled(url, ok) == [posted |-> <<>>, promise |-> "resolved"]

error(self, buildThrows, captureThrows, writeThrows) ==
    IF ~Initialized(self)
    THEN [NoOut EXCEPT !.thrown = UNINITIALIZED_ERROR]
    ELSE LET alert == IF Truthy(self.webhookUrl)
                      THEN postWebhookAlert(self, buildThrows, Undefined)
                      ELSE [posted |-> <<>>, promise |-> "none"]
             o1 == [NoOut EXCEPT !.dispatched = Truthy(self.webhookUrl),
                                 !.posted = alert.posted,
                                 !.promise = alert.promise]
         IN  IF self.sentry /\ captureThrows
             THEN [o1 EXCEPT !.thrown = CAPTURE_FAILURE]
             ELSE LET w == LoggerWrite(self, "error", writeThrows)
                  IN  [o1 EXCEPT !.captured = self.sentry,
                                 !.writes = w.writes,
                                 !.thrown = w.thrown]

errorEarly(self, captureThrows, writeThrows) ==
    IF ~Initialized(self)
    THEN [NoOut EXCEPT !.thrown = UNINITIALIZED_ERROR]
    ELSE IF self.sentry /\ captureThrows
         THEN [NoOut EXCEPT !.thrown = CAPTURE_FAILURE]
         ELSE LET w == LoggerWrite(self, "error", writeThrows)
              IN  [NoOut EXCEPT !.captured = self.sentry,
                                !.writes = w.writes,
                                !.thrown = w.thrown]

-----------------------------------------------------------------------------------------------------------------------------------------------------
(* The arguments the calls are made with *)

MaxPending == 2
MaxInits == 2

Variants == {"early", "later"}
Envs == {"localhost", "test", "production", Undefined}

\* the instance the one-instance specifications call
Primary == {"a"}

\* Spec: every operation, on one instance
LevelArgs == {Undefined, "warn"}
TagArgs == {Undefined, "lounge"}
UrlArgs == {Undefined, "", "https://hooks/a"}
OverrideArgs == {Undefined, "", "https://hooks/b"}
SetLevelArgs == {"error"}
TokenArgs == {Null, "loggly-token"}
DsnArgs == {"dsn1"}
NoOptions == [ignoreURLs |-> <<>>, customURLs |-> <<>>, customURLsSampleRate |-> <<>>]

\* SpecTransports: every combination of initializeTransports arguments
AllLevelArgs == {Undefined, "", "warn", "error"}
AllTagArgs == {Undefined, "", "lounge", "trivia"}
AllUrlArgs == {Undefined, Null, "https://hooks/a"}
AllColorArgs == {Undefined, "#36a64f"}
AllRegionArgs == {Undefined, "eu-west-1"}
AllSetLevelArgs == {"info", "error"}
\* <<defaultLevel, tag, forceConsole, webhookUrl, webhookColor, awsRegion>>: every
\* combination with both required arguments given, and every way of leaving one
\* out, with the optional arguments all omitted or all given
AllTransportArgs ==
    {a \in AllLevelArgs \X AllTagArgs \X BOOLEAN \X AllUrlArgs \X AllColorArgs
            \X AllRegionArgs :
        \/ Truthy(a[1]) /\ Truthy(a[2])
        \/ <<a[3], a[4], a[5], a[6]>> \in
               {<<FALSE, Undefined, Undefined, Undefined>>,
                <<TRUE, "https://hooks/a", "#36a64f", "eu-west-1">>}}

\* SpecSentry: every combination of initializeSentry arguments, on two instances
AllDsnArgs == {"dsn1", "dsn2"}
AllIgnoreErrorsArgs == {<<>>, <<"connect ECONNRESET">>}
AllRateArgs == {<<>>, <<80>>}
PathA == <<"/", "a">>
PathB == <<"/", "b">>
IgnoreLists == {<<>>, <<PathA \o PathA, PathA>>}
CustomLists == {<<>>, <<PathB, PathA>>}
AllOptionsArgs ==
    [ignoreURLs : IgnoreLists, customURLs : CustomLists,
     customURLsSampleRate : {<<>>, <<5>>}]
Fragments == {<<>>, PathA, PathB, <<"/", "h", "e", "a", "l">>, <<"t", "h">>}
Contexts ==
    {NoRequest}
    \cup [url : {<<f \o g>> : f, g \in Fragments}, method : {"GET", "OPTIONS"}]

-----
(* The state after the module is loaded and the instances are constructed *)

Init ==
    /\ variant \in Variants
    /\ env \in Envs
    /\ level = [i \in Loggers |-> "debug"]
    /\ logger = [i \in Loggers |-> NoLogger]
    /\ webhookUrl = [i \in Loggers |-> IF variant = "later" THEN Null ELSE Undefined]
    /\ webhookColor = [i \in Loggers |-> Undefined]
    /\ tag = [i \in Loggers |-> Undefined]
    /\ sentry = [i \in Loggers |-> FALSE]
    /\ sdk = <<>>
    /\ sdkInits = 0
    /\ initCalls = [i \in Loggers |-> 0]
    /\ pending = <<>>
    /\ lastOp = [name |-> "new", inst |-> "-", args |-> <<>>]
    /\ out = NoOut

\* args: the arguments as the caller passed them
Call(name, i, args) == lastOp' = [name |-> name, inst |-> i, args |-> args]

\* a completed initializeTransports call is counted, up to MaxInits
Counted(i, completed) ==
    initCalls' = [initCalls EXCEPT ![i] = IF completed /\ @ < MaxInits THEN @ + 1 ELSE @]

-----------------------------------------------------------------------------
(* One action per method call or callback *)

InitializeTransports(i, defaultLevel, t, forceConsole, url, color, region) ==
    /\ variant = "later"
    /\ LET r == initializeTransports(This(i), defaultLevel, t, forceConsole, url, color,
                                     region)
       IN  /\ Store(i, r.self)
           /\ out' = [NoOut EXCEPT !.thrown = r.thrown]
           /\ Counted(i, r.thrown = NoError)
    /\ Call("initializeTransports", i,
            <<defaultLevel, t, forceConsole, url, color, region>>)
    /\ UNCHANGED <<variant, env, sdk, sdkInits, pending>>

InitializeTransportsEarly(i, logglyToken, defaultLevel, t) ==
    /\ variant = "early"
    /\ LET r == initializeTransportsEarly(This(i), logglyToken, defaultLevel, t)
       IN  /\ Store(i, r.self)
           /\ out' = [NoOut EXCEPT !.thrown = r.thrown]
           /\ Counted(i, r.thrown = NoError)
    /\ Call("initializeTransports", i, <<logglyToken, defaultLevel, t>>)
    /\ UNCHANGED <<variant, env, sdk, sdkInits, pending>>

InitializeSentry(i, dsn, ignoreErrors, tracesSampleRate, options) ==
    /\ variant = "later"
    /\ LET r == initializeSentry(This(i), dsn, ignoreErrors, tracesSampleRate, options)
       IN  /\ Store(i, r.self)
           /\ sdk' = IF r.init # <<>> THEN r.init ELSE sdk
           /\ sdkInits' = sdkInits + Len(r.init)
           /\ out' = [NoOut EXCEPT !.sdkCalls = r.init]
    /\ Call("initializeSentry", i, <<dsn, ignoreErrors, tracesSampleRate, options>>)
    /\ UNCHANGED <<variant, env, initCalls, pending>>

InitializeSentryEarly(i, dsn, ignoreErrors, tracesSampleRate) ==
    /\ variant = "early"
    /\ LET r == initializeSentryEarly(This(i), dsn, ignoreErrors, tracesSampleRate)
       IN  /\ Store(i, r.self)
           /\ sdk' = IF r.init # <<>> THEN r.init ELSE sdk
           /\ sdkInits' = sdkInits + Len(r.init)
           /\ out' = [NoOut EXCEPT !.sdkCalls = r.init]
    /\ Call("initializeSentry", i, <<dsn, ignoreErrors, tracesSampleRate>>)
    /\ UNCHANGED <<variant, env, initCalls, pending>>

GetSentryHandlers(i) ==
    /\ out' = getSentryHandlers(This(i))
    /\ Call("getSentryHandlers", i, <<>>)
    /\ UNCHANGED <<variant, env, instanceVars, sdk, sdkInits, initCalls, pending>>

\* the SDK consults its tracing decision for an incoming request
TracesSample(context) ==
    /\ sdk # <<>>
    /\ out' = [NoOut EXCEPT !.context = context,
                            !.sampled = SdkSampleRate(sdk[1], context)]
    /\ Call("tracesSampler", "-", <<>>)
    /\ UNCHANGED <<variant, env, instanceVars, sdk, sdkInits, initCalls, pending>>

GetLevel(i) ==
    /\ out' = [NoOut EXCEPT !.returned = getLevel(This(i))]
    /\ Call("getLevel", i, <<>>)
    /\ UNCHANGED <<variant, env, instanceVars, sdk, sdkInits, initCalls, pending>>

SetLevel(i, lvl) ==
    /\ LET r == setLevel(This(i), lvl)
       IN  /\ Store(i, r.self)
           /\ out' = [NoOut EXCEPT !.thrown = r.thrown]
    /\ Call("setLevel", i, <<lvl>>)
    /\ UNCHANGED <<variant, env, sdk, sdkInits, initCalls, pending>>

Debug(i, writeThrows) ==
    /\ out' = log(This(i), "debug", writeThrows)
    /\ Call("debug", i, <<writeThrows>>)
    /\ UNCHANGED <<variant, env, instanceVars, sdk, sdkInits, initCalls, pending>>

Info(i, writeThrows) ==
    /\ out' = log(This(i), "info", writeThrows)
    /\ Call("info", i, <<writeThrows>>)
    /\ UNCHANGED <<variant, env, instanceVars, sdk, sdkInits, initCalls, pending>>

Warn(i, writeThrows) ==
    /\ out' = log(This(i), "warn", writeThrows)
    /\ Call("warn", i, <<writeThrows>>)
    /\ UNCHANGED <<variant, env, instanceVars, sdk, sdkInits, initCalls, pending>>

Error(i, buildThrows, captureThrows, writeThrows) ==
    /\ variant = "later"
    /\ LET o == error(This(i), buildThrows, captureThrows, writeThrows)
       IN  /\ Len(pending) + Len(o.posted) <= MaxPending
           /\ out' = o
           /\ pending' = pending \o o.posted
    /\ Call("error", i, <<buildThrows, captureThrows, writeThrows>>)
    /\ UNCHANGED <<variant, env, instanceVars, sdk, sdkInits, initCalls>>

ErrorEarly(i, captureThrows, writeThrows) ==
    /\ variant = "early"
    /\ out' = errorEarly(This(i), captureThrows, writeThrows)
    /\ Call("error", i, <<captureThrows, writeThrows>>)
    /\ UNCHANGED <<variant, env, instanceVars, sdk, sdkInits, initCalls, pending>>

PostWebhookAlert(i, buildThrows, override) ==
    /\ variant = "later"
    /\ LET r == postWebhookAlert(This(i), buildThrows, override)
       IN  /\ Len(pending) + Len(r.posted) <= MaxPending
           /\ out' = [NoOut EXCEPT !.dispatched = TRUE,
                                   !.posted = r.posted,
                                   !.promise = r.promise]
           /\ pending' = pending \o r.posted
    /\ Call("postWebhookAlert", i, <<buildThrows, override>>)
    /\ UNCHANGED <<variant, env, instanceVars, sdk, sdkInits, initCalls>>

\* the HTTP POST number k settles and the awaiting postWebhookAlert resumes
HttpSettled(k, ok) ==
    /\ k \in DOMAIN pending
    /\ LET r == postWebhookAlertSettled(pending[k], ok)
           rest == SubSeq(pending, 1, k - 1) \o SubSeq(pending, k + 1, Len(pending))
       IN  /\ out' = [NoOut EXCEPT !.posted = r.posted, !.promise = r.promise]
           /\ pending' = rest \o r.posted
    /\ Call(IF ok THEN "httpFulfilled" ELSE "httpRejected", "-", <<>>)
    /\ UNCHANGED <<variant, env, instanceVars, sdk, sdkInits, initCalls>>

-----------------------------------------------------------------------------------------------------------------------------------------------------
(* Spec: one instance, any call with any of the arguments of the first group *)

Next ==
    \/ \E i \in Primary, defaultLevel \in LevelArgs, t \in TagArgs,
          forceConsole \in BOOLEAN, url \in UrlArgs :
            InitializeTransports(i, defaultLevel, t, forceConsole, url, Undefined,
                                 Undefined)
    \/ \E i \in Primary, logglyToken \in TokenArgs, defaultLevel \in LevelArgs,
          t \in TagArgs :
            InitializeTransportsEarly(i, logglyToken, defaultLevel, t)
    \/ \E i \in Primary, dsn \in DsnArgs :
            InitializeSentry(i, dsn, <<>>, <<>>, NoOptions)
    \/ \E i \in Primary, dsn \in DsnArgs :
            InitializeSentryEarly(i, dsn, <<>>, <<>>)
    \/ \E i \in Primary : GetSentryHandlers(i)
    \/ \E i \in Primary : GetLevel(i)
    \/ \E i \in Primary, lvl \in SetLevelArgs : SetLevel(i, lvl)
    \/ \E i \in Primary, writeThrows \in BOOLEAN : Debug(i, writeThrows)
    \/ \E i \in Primary, writeThrows \in BOOLEAN : Info(i, writeThrows)
    \/ \E i \in Primary, writeThrows \in BOOLEAN : Warn(i, writeThrows)
    \/ \E i \in Primary, buildThrows \in BOOLEAN, captureThrows \in BOOLEAN,
          writeThrows \in BOOLEAN :
            Error(i, buildThrows, captureThrows, writeThrows)
    \/ \E i \in Primary, captureThrows \in BOOLEAN, writeThrows \in BOOLEAN :
            ErrorEarly(i, captureThrows, writeThrows)
    \/ \E i \in Primary, buildThrows \in BOOLEAN, override \in OverrideArgs :
            PostWebhookAlert(i, buildThrows, override)
    \/ \E k \in 1..MaxPending, ok \in BOOLEAN : HttpSettled(k, ok)

\* the calls of Next read the environment in the choice of the sinks only
InitFacade == Init /\ env \in {"localhost", "production"}

Spec == InitFacade /\ [][Next]_vars

-----------------------------------------------------------------------------
(* SpecTransports: one instance, (re)initialized with every combination of *)
(* arguments, its level set and records logged in between                  *)

NextTransports ==
    \/ \E i \in Primary, a \in AllTransportArgs :
            InitializeTransports(i, a[1], a[2], a[3], a[4], a[5], a[6])
    \/ \E i \in Primary, logglyToken \in TokenArgs, defaultLevel \in AllLevelArgs,
          t \in AllTagArgs :
            InitializeTransportsEarly(i, logglyToken, defaultLevel, t)
    \/ \E i \in Primary : GetLevel(i)
    \/ \E i \in Primary, lvl \in AllSetLevelArgs : SetLevel(i, lvl)
    \/ \E i \in Primary : Debug(i, FALSE)
    \/ \E i \in Primary : Info(i, FALSE)
    \/ \E i \in Primary : Warn(i, FALSE)

SpecTransports == Init /\ [][NextTransports]_vars

-----------------------------------------------------------------------------
(* SpecSentry: two instances in one process, error tracking initialized    *)
(* with every combination of arguments, the SDK sampling requests          *)

NextSentry ==
    \/ \E i \in Loggers, dsn \in AllDsnArgs, ignoreErrors \in AllIgnoreErrorsArgs,
          tracesSampleRate \in AllRateArgs, options \in AllOptionsArgs :
            InitializeSentry(i, dsn, ignoreErrors, tracesSampleRate, options)
    \/ \E i \in Loggers, dsn \in AllDsnArgs, ignoreErrors \in AllIgnoreErrorsArgs,
          tracesSampleRate \in AllRateArgs :
            InitializeSentryEarly(i, dsn, ignoreErrors, tracesSampleRate)
    \/ \E i \in Loggers : GetSentryHandlers(i)
    \/ \E context \in Contexts : TracesSample(context)

InitSentry == Init /\ env = "production"

SpecSentry == InitSentry /\ [][NextSentry]_vars

-----------------------------------------------------------------------------
(* Properties *)

GuardedOps == {"debug", "info", "warn", "error", "setLevel"}

(* C1: on an instance on which initializeTransports has never completed,   *)
(* each of debug, info, warn, error and setLevel raises 'Logger is not     *)
(* initialized' and does nothing else: no record is written, no alert is   *)
(* dispatched or posted, nothing is captured, and the instance (its level  *)
(* included), the SDK and the posts in flight are as before; whether       *)
(* initializeSentry was called first makes no difference.                  *)
C1_UninitializedCallsFail ==
    [][\A i \in Loggers :
         (lastOp'.inst = i /\ lastOp'.name \in GuardedOps /\ initCalls[i] = 0)
         => /\ out' = [NoOut EXCEPT !.thrown = UNINITIALIZED_ERROR]
            /\ UNCHANGED <<instanceVars, sdk, sdkInits, initCalls, pending>>]_vars

\* error() called on an uninitialized instance whose error tracker is bound
C1_Witness ==
    /\ lastOp.name = "error"
    /\ lastOp.inst = "a"
    /\ initCalls["a"] = 0
    /\ sentry["a"]
    /\ out.thrown = UNINITIALIZED_ERROR

(* C2: in error() on an initialized logger the three effects are           *)
(* independent: whichever of them fails, the alert is dispatched when a    *)
(* webhook URL is configured, the capture is attempted when the error      *)
(* tracker is bound, and the log write is attempted.                       *)
C2_ErrorEffectsIndependent ==
    \A i \in Loggers :
        (variant = "later" /\ lastOp.name = "error" /\ lastOp.inst = i /\ initCalls[i] > 0)
        => /\ Truthy(webhookUrl[i]) => out.dispatched
           /\ sentry[i] => (out.captured \/ out.thrown = CAPTURE_FAILURE)
           /\ out.writes # <<>> \/ out.thrown = WRITE_FAILURE

(* C3: initializeSentry is first-call-wins per instance: a call on an      *)
(* instance that has already initialized error tracking, whatever DSN,     *)
(* ignore list and sampling options it passes, makes no sentry.init call   *)
(* and leaves the SDK's options and the instance as they were, so the      *)
(* handlers getSentryHandlers returns stay those of the SDK as configured. *)
C3_InitializeSentryFirstCallWins ==
    [][\A i \in Loggers :
         /\ (lastOp'.name = "initializeSentry" /\ lastOp'.inst = i /\ sentry[i])
            => /\ out' = NoOut
               /\ UNCHANGED <<sdk, sdkInits, instanceVars, initCalls, pending>>
         /\ (lastOp'.name = "getSentryHandlers" /\ lastOp'.inst = i /\ sentry[i])
            => /\ out' = [NoOut EXCEPT !.handlers = sdk]
               /\ UNCHANGED <<sdk, sdkInits, instanceVars>>]_vars

\* a second call on "a", with another DSN, after the only sentry.init of the process
C3_Witness ==
    /\ lastOp.name = "initializeSentry"
    /\ lastOp.inst = "a"
    /\ lastOp.args[1] = "dsn2"
    /\ sdkInits = 1
    /\ sentry["a"] /\ ~sentry["b"]
    /\ sdk[1].dsn = "dsn1"
    /\ out.sdkCalls = <<>>

(* C4: the error-tracking SDK is configured at most once per process:      *)
(* after a first initializeSentry, a later one, also on another instance,  *)
(* makes no sentry.init call.                                              *)
C4_OneBindingPerProcess == sdkInits <= 1

(* C5: in the later version a call of initializeTransports with both       *)
(* required arguments leaves exactly one sink, at level defaultLevel: a    *)
(* console sink if the environment is 'localhost' or 'test' or             *)
(* forceConsole is set, else a cloud sink of group '{tag}-{environment}';  *)
(* the other arguments do not enter the choice.                            *)
C5_TransportSelection ==
    \A i \in Loggers :
        (/\ variant = "later"
         /\ lastOp.name = "initializeTransports"
         /\ lastOp.inst = i
         /\ Truthy(lastOp.args[1])
         /\ Truthy(lastOp.args[2]))
        => /\ logger[i] # <<>>
           /\ LET ts == logger[i][1].transports
              IN  /\ Len(ts) = 1
                  /\ ts[1].level = lastOp.args[1]
                  /\ IF env \in {"localhost", "test"} \/ lastOp.args[3]
                     THEN ts[1].kind = "Console"
                     ELSE /\ ts[1].kind = "Cloudwatch"
                          /\ ts[1].logGroupName = lastOp.args[2] \o "-" \o Str(env)

\* a console sink chosen for the environment 'test', with a webhook URL and a region given
C5_Witness ==
    /\ variant = "later"
    /\ env = "test"
    /\ lastOp.name = "initializeTransports"
    /\ lastOp.args[3] = FALSE
    /\ lastOp.args[4] = "https://hooks/a"
    /\ lastOp.args[6] = "eu-west-1"
    /\ logger["a"] = <<[transports |-> <<[kind |-> "Console", level |-> "warn"]>>]>>

(* C6: re-initialization replaces and never appends: after every           *)
(* successful initializeTransports call, a first one or a later one, the   *)
(* sinks are exactly those the call selects and level, tag and webhook     *)
(* settings are those of the call; a record logged afterwards is handed    *)
(* once to each of these sinks and to nothing else.                        *)
C6_ReinitializationReplaces ==
    \A i \in Loggers :
        /\ (/\ variant = "later"
            /\ lastOp.name = "initializeTransports"
            /\ lastOp.inst = i
            /\ out.thrown = NoError)
           => LET a == lastOp.args
              IN  /\ level[i] = a[1]
                  /\ tag[i] = a[2]
                  /\ webhookUrl[i] = (IF a[4] = Undefined THEN Null ELSE a[4])
                  /\ webhookColor[i] = (IF a[5] = Undefined THEN "#b52626" ELSE a[5])
                  /\ logger[i] =
                        <<[transports |->
                             SelectTransports(a[1], a[2], a[3],
                                 IF a[6] = Undefined THEN "us-east-1" ELSE a[6])]>>
        /\ (/\ variant = "early"
            /\ lastOp.name = "initializeTransports"
            /\ lastOp.inst = i
            /\ out.thrown = NoError)
           => LET a == lastOp.args
                  lvl == IF a[2] = Undefined THEN "debug" ELSE a[2]
                  tg == IF a[3] = Undefined THEN "trivia" ELSE a[3]
              IN  /\ level[i] = lvl
                  /\ logger[i] = <<[transports |-> SelectTransportsEarly(a[1], lvl, tg)]>>
        /\ (/\ lastOp.name \in {"debug", "info", "warn"}
            /\ lastOp.inst = i
            /\ initCalls[i] > 0
            /\ out.thrown = NoError)
           => LET ts == logger[i][1].transports
              IN  /\ Len(out.writes) = Len(ts)
                  /\ \A k \in DOMAIN ts :
                        out.writes[k] = [sink |-> ts[k], level |-> lastOp.name]

\* a record logged after a second initialization reaches the one cloud sink
C6_Witness ==
    /\ variant = "later"
    /\ initCalls["a"] = 2
    /\ lastOp.name = "info"
    /\ Len(out.writes) = 1
    /\ out.writes[1].sink.kind = "Cloudwatch"
    /\ out.writes[1].sink.logGroupName = "trivia-production"

(* C7: postWebhookAlert never raises: the call throws nothing, posts at    *)
(* most once and leaves the instance as it was; its promise is resolved at *)
(* once when nothing is posted and otherwise when the POST settles,        *)
(* fulfilled or rejected, and is never rejected; a rejected POST is not    *)
(* sent again.                                                             *)
C7_PostWebhookAlertNeverRaises ==
    [][/\ lastOp'.name = "postWebhookAlert"
          => /\ out'.thrown = NoError
             /\ Len(out'.posted) <= 1
             /\ out'.promise = (IF out'.posted = <<>> THEN "resolved" ELSE "pending")
             /\ pending' = pending \o out'.posted
             /\ UNCHANGED <<instanceVars, initCalls, sdk, sdkInits>>
       /\ lastOp'.name \in {"httpFulfilled", "httpRejected"}
          => /\ out'.thrown = NoError
             /\ out'.promise = "resolved"
             /\ out'.posted = <<>>
             /\ Len(pending') = Len(pending) - 1
             /\ UNCHANGED <<instanceVars, initCalls, sdk, sdkInits>>]_vars

\* the POST of an alert was rejected and the promise resolved all the same
C7_Witness ==
    /\ lastOp.name = "httpRejected"
    /\ out.promise = "resolved"
    /\ out.thrown = NoError

(* C8 as stated: with neither an instance URL nor an override no POST is   *)
(* made; otherwise exactly one is, to the override when one is passed and  *)
(* to the instance URL when none is; error() dispatches an alert only when *)
(* the instance URL is configured.                                         *)
C8_ExactlyOnePost ==
    \A i \in Loggers :
        /\ (lastOp.name = "postWebhookAlert" /\ lastOp.inst = i)
           => LET override == lastOp.args[2]
              IN  IF ~Truthy(webhookUrl[i]) /\ ~Truthy(override)
                  THEN out.posted = <<>>
                  ELSE out.posted =
                          <<IF Truthy(override) THEN override ELSE webhookUrl[i]>>
        /\ (variant = "later" /\ lastOp.name = "error" /\ lastOp.inst = i
               /\ initCalls[i] > 0)
           => (out.dispatched <=> Truthy(webhookUrl[i]))

(* C8 amended: with neither a non-empty instance URL nor a non-empty       *)
(* override no POST is made; otherwise no POST is made when building the   *)
(* message throws, and else exactly one, to the override unless that is    *)
(* null or undefined (an empty override is used as it is) and to the       *)
(* instance URL only then; error() dispatches an alert exactly when the    *)
(* instance URL is non-empty, and that alert goes to the instance URL.     *)
C8_WebhookUrlResolution ==
    \A i \in Loggers :
        /\ (lastOp.name = "postWebhookAlert" /\ lastOp.inst = i)
           => LET buildThrows == lastOp.args[1]
                  override == lastOp.args[2]
              IN  IF ~Truthy(webhookUrl[i]) /\ ~Truthy(override)
                  THEN out.posted = <<>>
                  ELSE IF buildThrows
                       THEN out.posted = <<>>
                       ELSE out.posted =
                               <<IF override \notin {Null, Undefined}
                                 THEN override
                                 ELSE webhookUrl[i]>>
        /\ (variant = "later" /\ lastOp.name = "error" /\ lastOp.inst = i
               /\ initCalls[i] > 0)
           => /\ out.dispatched <=> Truthy(webhookUrl[i])
              /\ out.posted = (IF Truthy(webhookUrl[i]) /\ ~lastOp.args[1]
                               THEN <<webhookUrl[i]>>
                               ELSE <<>>)

\* an override URL posts on an instance that has no webhook URL
C8_Witness ==
    /\ lastOp.name = "postWebhookAlert"
    /\ lastOp.inst = "a"
    /\ ~Truthy(webhookUrl["a"])
    /\ lastOp.args = <<FALSE, "https://hooks/b">>
    /\ out.posted = <<"https://hooks/b">>

\* s contains p, by the positions p starts and ends at
Contains(s, p) == \E a, b \in 0..Len(s) : a <= b /\ SubSeq(s, a + 1, b) = p

(* C9: the tracing decision returns 0 if the method is OPTIONS or the URL  *)
(* contains '/health' or an ignoreURLs pattern, else customURLsSampleRate  *)
(* if the URL contains a customURLs pattern, else tracesSampleRate.        *)
C9_SamplingDecision ==
    (variant = "later" /\ lastOp.name = "tracesSampler")
    => LET cfg == sdk[1].tracesSampler
           request == out.context
           Has(p) == request.url # <<>> /\ Contains(request.url[1], p)
           ignored ==
               \/ request.method = "OPTIONS"
               \/ Has(<<"/", "h", "e", "a", "l", "t", "h">>)
               \/ \E k \in DOMAIN cfg.ignoreURLs : Has(cfg.ignoreURLs[k])
           custom == \E k \in DOMAIN cfg.customURLs : Has(cfg.customURLs[k])
       IN  out.sampled = IF ignored THEN 0
                         ELSE IF custom THEN cfg.customURLsSampleRate
                         ELSE cfg.tracesSampleRate

\* a GET of /a/b, which an ignore pattern and a custom pattern both match, gets rate 0
C9_Witness ==
    /\ variant = "later"
    /\ lastOp.name = "tracesSampler"
    /\ out.context = [url |-> <<PathA \o PathB>>, method |-> "GET"]
    /\ sdk[1].tracesSampler.ignoreURLs = <<PathA \o PathA, PathA>>
    /\ sdk[1].tracesSampler.customURLs = <<PathB, PathA>>
    /\ out.sampled = 0

-----------------------------------------------------------------------------
(* C11: level uniformity. An instance that never completed                  *)
(* initializeTransports has level "debug" and no logger; getLevel returns   *)
(* the level of the instance; after an initializeTransports call that       *)
(* returned, the level is the defaultLevel passed (the early version        *)
(* defaults an omitted one to "debug"); after a setLevel(L) that returned,  *)
(* the level is L and every transport of the logger has level L; in every   *)
(* state every transport of an initialized instance has the level getLevel  *)
(* returns; and a getLevel, debug, info, warn or error call leaves the      *)
(* level and the logger of every instance as they were.                     *)
C11_LevelUniformity ==
    /\ [](/\ \A i \in Loggers :
                /\ initCalls[i] = 0 => level[i] = "debug" /\ logger[i] = NoLogger
                /\ Initialized(This(i)) =>
                      \A k \in DOMAIN logger[i][1].transports :
                          logger[i][1].transports[k].level = getLevel(This(i))
          /\ lastOp.name = "getLevel" => out.returned = level[lastOp.inst]
          /\ lastOp.name = "initializeTransports" /\ out.thrown = NoError =>
                level[lastOp.inst] =
                    (IF variant = "later" THEN lastOp.args[1]
                     ELSE Default(lastOp.args[2], "debug"))
          /\ lastOp.name = "setLevel" /\ out.thrown = NoError =>
                /\ Initialized(This(lastOp.inst))
                /\ level[lastOp.inst] = lastOp.args[1]
                /\ \A k \in DOMAIN logger[lastOp.inst][1].transports :
                       logger[lastOp.inst][1].transports[k].level = lastOp.args[1])
    /\ [][lastOp'.name \in {"getLevel", "debug", "info", "warn", "error"}
             => UNCHANGED <<level, logger>>]_vars

\* the early version with its two remote sinks, both moved to the level set
\* by setLevel, and getLevel reporting that level
C11_Witness ==
    /\ variant = "early"
    /\ lastOp.name = "getLevel"
    /\ out.returned = "error"
    /\ initCalls["a"] = 1
    /\ level["a"] = "error"
    /\ Initialized(This("a"))
    /\ Len(logger["a"][1].transports) = 2
    /\ \A k \in 1..2 : logger["a"][1].transports[k].level = "error"

====
